---- MODULE Spec2Model ----
(***************************************************************************)
(* Horizon View: the flight sun-geometry engine (lib/sun, lib/geo) and     *)
(* the GET /api/flight route that calls it; the client of the             *)
(* sunrise-sunset API (lib/sun-api); and three components with the browser *)
(* state they read and write, each under a specification of its own:       *)
(* ThemeToggle (SpecTheme), FlightInputForm (SpecForm) and VisualizeClient  *)
(* (SpecVisualize).                                                        *)
(*                                                                         *)
(* Representation.                                                         *)
(*  - A Date is its time value in milliseconds, counted from               *)
(*    2024-01-01T00:00:00Z.  A nullable value is a sequence: <<>> is       *)
(*    null (or an Invalid Date out of the parser), <<v>> is the value v.   *)
(*  - Angles are whole degrees.  Coordinates are in 1/10000 degree.        *)
(*  - flightDuration is carried in milliseconds (the source carries hours  *)
(*    and multiplies by 60 * 60 * 1000 wherever it uses it).               *)
(*  - Floating-point trigonometry cannot be evaluated here.  Its results   *)
(*    are inputs of the call, gathered in a record env:                    *)
(*      env.sunCalc[i]  SunCalc.getPosition at path sample i (0..19) and,  *)
(*                      for i = 20, at the arrival; azimuth is the raw     *)
(*                      south-referenced azimuth, both fields in degrees   *)
(*      env.atan2[i]    Math.atan2(y, x) in degrees for the segment from   *)
(*                      path point i to path point i + 1                   *)
(*      env.eph         for the departure and the arrival call of          *)
(*                      calculateSunriseSunset and for each event, the     *)
(*                      hour-angle cosine cosH (in 1/1000) and the local   *)
(*                      mean time T (in ms) of sun.ts:46-78                *)
(*      env.tz          the host's local time-zone offset in ms            *)
(***************************************************************************)
EXTENDS Integers, Sequences, FiniteSets, TLC

VARIABLES pc, op, args, ret, localStorage, prefersDark, mounted, isDark, classList, toggled, togglesAtMount, formData, isSubmitting, formError, pushed, submissions, clock, searchParams, flightData, loading, error, pending, fetches, outcomes

engineVars == <<pc, op, args, ret>>

themeVars == <<localStorage, prefersDark, mounted, isDark, classList, toggled, togglesAtMount>>

formVars == <<formData, isSubmitting, formError, pushed, submissions, clock>>

visualizeVars == <<searchParams, flightData, loading, error, pending, fetches, outcomes>>

\* what the engine, the theme button, the form and the result page each
\* leave alone
exceptEngine == <<themeVars, formVars, visualizeVars>>
exceptTheme == <<engineVars, formVars, visualizeVars>>
exceptForm == <<engineVars, themeVars, visualizeVars>>
exceptVisualize == <<engineVars, themeVars, formVars>>

vars == <<pc, op, args, ret, localStorage, prefersDark, mounted, isDark, classList, toggled, togglesAtMount, formData, isSubmitting, formError, pushed, submissions, clock, searchParams, flightData, loading, error, pending, fetches, outcomes>>

-----------------------------------------------------------------------------
(* Bounds of the model *)

\* longest list of relative angles handed to determineScenicSideFromTrajectory
MaxAngles == 3

\* largest numPoints handed to generateGreatCirclePath on its own
MaxNumPoints == 4

\* fetches that the result page starts in one behaviour
MaxFetches == 3

\* submissions of the flight form in one behaviour
MaxSubmissions == 3

\* browser tabs open on the application
MaxTabs == 2

\* uses of the theme button in one behaviour
MaxToggles == 3

-----------------------------------------------------------------------------
(* JavaScript arithmetic *)

\* a % b of JavaScript: the remainder takes the sign of the dividend
JsMod(a, b) == IF a >= 0 THEN a % b ELSE -((-a) % b)

Null == <<>>

Some(v) == <<v>>

RECURSIVE Gcd(_, _)
Gcd(a, b) == IF b = 0 THEN a ELSE Gcd(b, a % b)

\* the number i / n of JavaScript, for integers i >= 0: a reduced fraction,
\* <<0, 0>> for NaN (0 / 0)
Fraction(i, n) ==
  IF n = 0 THEN <<0, 0>>
  ELSE LET g == Gcd(i, IF n < 0 THEN -n ELSE n)
       IN  IF g = 0 THEN <<0, 1>>
           ELSE IF n < 0 THEN <<-(i \div g), (-n) \div g>>
           ELSE <<i \div g, n \div g>>

-----------------------------------------------------------------------------
(* Dates *)

MsPerSecond == 1000
MsPerMinute == 60 * MsPerSecond
MsPerHour == 60 * MsPerMinute
MsPerDay == 24 * MsPerHour

\* calendar fields of the day with index d (day 0 is 2024-01-01); the model
\* stays within December 2023 .. February 2024
CivilFromDays(d) ==
  IF d < 0 THEN [year |-> 2023, month |-> 11, date |-> d + 32]
  ELSE IF d < 31 THEN [year |-> 2024, month |-> 0, date |-> d + 1]
  ELSE [year |-> 2024, month |-> 1, date |-> d - 30]

\* Date.UTC(year, month, date, hour, min, sec)
DateUTC(year, month, date, hour, min, sec) ==
  LET d == IF year = 2023 THEN date - 32
           ELSE IF month = 0 THEN date - 1
           ELSE date + 30
  IN  d * MsPerDay + hour * MsPerHour + min * MsPerMinute + sec * MsPerSecond

\* the calendar fields of a Date in the host's local time zone
LocalFields(t, tz) == CivilFromDays((t + tz) \div MsPerDay)

getFullYear(t, tz) == LocalFields(t, tz).year
getMonth(t, tz) == LocalFields(t, tz).month
getDate(t, tz) == LocalFields(t, tz).date

-----------------------------------------------------------------------------
(* src/lib/sun.ts: dayOfYear.  Here an instant is counted in minutes from   *)
(* 2024-01-01T00:00Z, so that a whole year fits.  A host time zone is a     *)
(* record: its offset from UTC is zone.offset, and zone.offset + zone.shift *)
(* for the instants from zone.from up to zone.to (all in minutes).          *)

MinutesPerDay == 24 * 60

\* the offset from UTC that the zone has at instant t
OffsetAt(zone, t) ==
  IF zone.from <= t /\ t < zone.to THEN zone.offset + zone.shift ELSE zone.offset

\* the index of the local calendar day of instant t (day 0 is 2024-01-01)
LocalDay(zone, t) == (t + OffsetAt(zone, t)) \div MinutesPerDay

\* the index of January 1 of the year that holds the day with index day
YearStart(day) == IF day < 0 THEN -365 ELSE IF day < 366 THEN 0 ELSE 366

\* new Date(year, 0, 0): local midnight at the start of December 31 of the
\* year before
LastDayOfPreviousYear(zone, year0) ==
  LET wall == (year0 - 1) * MinutesPerDay
  IN  wall - OffsetAt(zone, wall - zone.offset)

dayOfYear(d, zone) ==
  LET start == LastDayOfPreviousYear(zone, YearStart(LocalDay(zone, d)))
      diff == d - start
  IN  diff \div MinutesPerDay

-----------------------------------------------------------------------------
(* src/lib/sun.ts *)

\* sunTime without the correction of a negative remainder (line 81)
sunTime_noWrap(e, lon, date, tz) ==
  IF e.cosH > 1000 THEN Null
  ELSE IF e.cosH < -1000 THEN Null
  ELSE LET UT == JsMod(e.T - lon * 24 + 24 * MsPerHour, 24 * MsPerHour)
           hour == UT \div MsPerHour
           min == (UT - hour * MsPerHour) \div MsPerMinute
           sec == (UT - hour * MsPerHour - min * MsPerMinute) \div MsPerSecond
       IN  Some(DateUTC(getFullYear(date, tz), getMonth(date, tz),
                        getDate(date, tz), hour, min, sec))

\* sunTime giving up already at an hour-angle cosine of exactly 1 or -1
sunTime_inclusive(e, lon, date, tz) ==
  IF e.cosH >= 1000 \/ e.cosH <= -1000 THEN Null
  ELSE LET UT0 == JsMod(e.T - lon * 24 + 24 * MsPerHour, 24 * MsPerHour)
           hour == UT0 \div MsPerHour
           min == (UT0 - hour * MsPerHour) \div MsPerMinute
           sec == (UT0 - hour * MsPerHour - min * MsPerMinute) \div MsPerSecond
       IN  Some(DateUTC(getFullYear(date, tz), getMonth(date, tz),
                        getDate(date, tz), hour, min, sec))

\* sunTime, from the hour-angle test on: e = [cosH, T] is what lines 46-78
\* computed for this event
sunTime(e, lon, date, tz) ==
  IF e.cosH > 1000 THEN Null
  ELSE IF e.cosH < -1000 THEN Null
  ELSE LET UT0 == JsMod(e.T - lon * 24 + 24 * MsPerHour, 24 * MsPerHour)
           UT == IF UT0 < 0 THEN UT0 + 24 * MsPerHour ELSE UT0
           hour == UT \div MsPerHour
           min == (UT - hour * MsPerHour) \div MsPerMinute
           sec == (UT - hour * MsPerHour - min * MsPerMinute) \div MsPerSecond
       IN  Some(DateUTC(getFullYear(date, tz), getMonth(date, tz),
                        getDate(date, tz), hour, min, sec))

calculateSunriseSunset(eph, lon, date, tz) ==
  [sunrise |-> sunTime(eph.rise, lon, date, tz),
   sunset |-> sunTime(eph.set, lon, date, tz)]

\* getSunPosition without the remainder by 360
getSunPosition_noWrap(pos) ==
  LET a == pos.azimuth + 180
  IN  [azimuth |-> IF a < 0 THEN a + 360 ELSE a, altitude |-> pos.altitude]

\* pos is SunCalc.getPosition(date, lat, lng), in degrees
getSunPosition(pos) ==
  LET a == JsMod(pos.azimuth + 180, 360)
  IN  [azimuth |-> IF a < 0 THEN a + 360 ELSE a, altitude |-> pos.altitude]

calculateSunRelativeAngle(flightBearing, sunAzimuth) ==
  LET normalizedFlight == JsMod(JsMod(flightBearing, 360) + 360, 360)
      normalizedSun == JsMod(JsMod(sunAzimuth, 360) + 360, 360)
      r0 == normalizedSun - normalizedFlight
      r1 == IF r0 > 180 THEN r0 - 360 ELSE r0
  IN  IF r1 < -180 THEN r1 + 360 ELSE r1

threshold == 5

\* determineScenicSideFromTrajectory with the tests made inclusive
determineScenicSideFromTrajectory_inclusive(relativeAngles) ==
  LET hasLeft == \E i \in 1..Len(relativeAngles) : relativeAngles[i] <= -threshold
      hasRight == \E i \in 1..Len(relativeAngles) : relativeAngles[i] >= threshold
  IN  IF hasLeft /\ hasRight THEN "both"
      ELSE IF hasRight THEN "right"
      ELSE IF hasLeft THEN "left"
      ELSE "both"

determineScenicSideFromTrajectory(relativeAngles) ==
  LET hasLeft == \E i \in 1..Len(relativeAngles) : relativeAngles[i] < -threshold
      hasRight == \E i \in 1..Len(relativeAngles) : relativeAngles[i] > threshold
  IN  IF hasLeft /\ hasRight THEN "both"
      ELSE IF hasRight THEN "right"
      ELSE IF hasLeft THEN "left"
      ELSE "both"

leftWindowSeat == "A"
rightWindowSeat == "F"

\* getRecommendedSeats with the two window seats exchanged
getRecommendedSeats_swapped(scenicSide) ==
  CASE scenicSide = "left" -> <<rightWindowSeat>>
    [] scenicSide = "right" -> <<leftWindowSeat>>
    [] scenicSide = "both" -> <<leftWindowSeat, rightWindowSeat>>
    [] OTHER -> <<>>

getRecommendedSeats(scenicSide) ==
  CASE scenicSide = "left" -> <<leftWindowSeat>>
    [] scenicSide = "right" -> <<rightWindowSeat>>
    [] scenicSide = "both" -> <<leftWindowSeat, rightWindowSeat>>
    [] OTHER -> <<>>

-----------------------------------------------------------------------------
(* lib/geo: src/unnamed/part_002 *)

\* geoInterpolate(a, b)(t) of d3-geo, t a Fraction: the point of the great
\* circle from a to b at fraction t, kept symbolically.  When a and b
\* coincide d3 returns a whatever t is.
geoInterpolate(a, b, t) ==
  IF a = b THEN [from |-> a, to |-> b, t |-> <<0, 1>>]
  ELSE [from |-> a, to |-> b, t |-> t]

generateGreatCirclePath(startLat, startLng, endLat, endLng, numPoints) ==
  LET a == <<startLng, startLat>>
      b == <<endLng, endLat>>
  IN  IF numPoints < 0 THEN <<>>
      ELSE [k \in 1..(numPoints + 1) |->
              geoInterpolate(a, b, Fraction(k - 1, numPoints))]

\* theta is Math.atan2(y, x) * 180 / Math.PI of lines 386-390
\* calculateBearing adding half a turn instead of a whole one
calculateBearing_reversed(theta) == JsMod(theta + 180, 360)

calculateBearing(theta) == JsMod(theta + 360, 360)

\* distance in metres, averageSpeed in km/h, the result in milliseconds
calculateFlightDuration(distance, averageSpeed) ==
  (distance \div averageSpeed) * 3600
    + ((distance % averageSpeed) * 3600) \div averageSpeed

\* haversineDistance in metres and Math.atan2(y, x) of calculateBearing in
\* degrees, as the source's formulas give them for the coordinates the model
\* uses (both 0 for coincident points)
JFK == [code |-> "JFK", city |-> "New York", lat |-> 406413, lng |-> -737781]
LAX == [code |-> "LAX", city |-> "Los Angeles", lat |-> 339425, lng |-> -1184081]
LHR == [code |-> "LHR", city |-> "London", lat |-> 514775, lng |-> -4614]

AIRPORTS == <<JFK, LAX, LHR>>

GeoTable ==
  <<[a |-> JFK, b |-> LAX, metres |-> 3974262, atan2 |-> -86],
    [a |-> LAX, b |-> JFK, metres |-> 3974262, atan2 |-> 66],
    [a |-> JFK, b |-> LHR, metres |-> 5539287, atan2 |-> 51],
    [a |-> LHR, b |-> JFK, metres |-> 5539287, atan2 |-> -72],
    [a |-> LAX, b |-> LHR, metres |-> 8759179, atan2 |-> 34],
    [a |-> LHR, b |-> LAX, metres |-> 8759179, atan2 |-> -48]>>

GeoEntry(lat1, lng1, lat2, lng2) ==
  IF lat1 = lat2 /\ lng1 = lng2 THEN [metres |-> 0, atan2 |-> 0]
  ELSE LET i == CHOOSE i \in 1..Len(GeoTable) :
                  /\ GeoTable[i].a.lat = lat1 /\ GeoTable[i].a.lng = lng1
                  /\ GeoTable[i].b.lat = lat2 /\ GeoTable[i].b.lng = lng2
       IN  GeoTable[i]

haversineDistance(lat1, lng1, lat2, lng2) == GeoEntry(lat1, lng1, lat2, lng2).metres

Atan2Deg(lat1, lng1, lat2, lng2) == GeoEntry(lat1, lng1, lat2, lng2).atan2

-----------------------------------------------------------------------------
(* src/lib/sun.ts: calculateFlightSunData *)

\* selectSunEvent taking an arrival event that falls on the arrival instant
selectSunEvent_closedWindow(depEvent, arrEvent, departureTime, arrivalTime, tz) ==
  LET fallback == IF depEvent # Null THEN depEvent[1] ELSE departureTime
  IN  IF getDate(arrivalTime, tz) # getDate(departureTime, tz)
      THEN IF arrEvent # Null /\ arrEvent[1] > departureTime
                /\ arrEvent[1] <= arrivalTime
           THEN arrEvent[1] ELSE fallback
      ELSE IF depEvent # Null /\ depEvent[1] > departureTime
                /\ depEvent[1] < arrivalTime
           THEN depEvent[1] ELSE fallback

\* selectSunEvent falling back to the arrival instant
selectSunEvent_arrivalFallback(depEvent, arrEvent, departureTime, arrivalTime, tz) ==
  LET fallback == IF depEvent # Null THEN depEvent[1] ELSE arrivalTime
  IN  IF getDate(arrivalTime, tz) # getDate(departureTime, tz)
      THEN IF arrEvent # Null /\ arrEvent[1] > departureTime
                /\ arrEvent[1] < arrivalTime
           THEN arrEvent[1] ELSE fallback
      ELSE IF depEvent # Null /\ depEvent[1] > departureTime
                /\ depEvent[1] < arrivalTime
           THEN depEvent[1] ELSE fallback

\* lines 214-247, for one event: depEvent and arrEvent are the departure and
\* arrival location's sunrise (or sunset)
selectSunEvent(depEvent, arrEvent, departureTime, arrivalTime, tz) ==
  LET fallback == IF depEvent # Null THEN depEvent[1] ELSE departureTime
  IN  IF getDate(arrivalTime, tz) # getDate(departureTime, tz)
      THEN IF arrEvent # Null /\ arrEvent[1] > departureTime
                /\ arrEvent[1] < arrivalTime
           THEN arrEvent[1] ELSE fallback
      ELSE IF depEvent # Null /\ depEvent[1] > departureTime
                /\ depEvent[1] < arrivalTime
           THEN depEvent[1] ELSE fallback

visibilityAltitude == -6

\* Math.atan2(y, x) of calculateBearing for the segment that starts at path
\* point k: 0 when the two points coincide (y and x are both 0)
segmentAtan2(pathPoints, k, env) ==
  IF pathPoints[k] = pathPoints[k + 1] THEN 0 ELSE env.atan2[k - 1]

\* pathSamples keeping a sample at exactly the visibility altitude
pathSamples_inclusive(pathPoints, env) ==
  LET sample(k) ==
        LET sunPos == getSunPosition(env.sunCalc[k - 1])
        IN  [azimuth |-> sunPos.azimuth, altitude |-> sunPos.altitude,
             bearing |-> calculateBearing(segmentAtan2(pathPoints, k, env))]
      all == [k \in 1..(Len(pathPoints) - 1) |-> sample(k)]
  IN  SelectSeq(all, LAMBDA s : s.altitude >= visibilityAltitude)

\* lines 257-278: the samples of the loop over the path, the visible ones kept
pathSamples(pathPoints, env) ==
  LET sample(k) ==
        LET sunPos == getSunPosition(env.sunCalc[k - 1])
        IN  [azimuth |-> sunPos.azimuth, altitude |-> sunPos.altitude,
             bearing |-> calculateBearing(segmentAtan2(pathPoints, k, env))]
      all == [k \in 1..(Len(pathPoints) - 1) |-> sample(k)]
  IN  SelectSeq(all, LAMBDA s : s.altitude > visibilityAltitude)

\* lines 280-291: the arrival sample
withArrivalSample(visible, arrivalSun, routeBearing) ==
  IF arrivalSun.altitude > visibilityAltitude
  THEN LET lastBearing == IF Len(visible) > 0
                          THEN visible[Len(visible)].bearing
                          ELSE routeBearing
       IN  Append(visible, [azimuth |-> arrivalSun.azimuth,
                            altitude |-> arrivalSun.altitude,
                            bearing |-> lastBearing])
  ELSE visible

\* lines 293-308
classifyVisible(visibleSunPositions) ==
  IF Len(visibleSunPositions) = 0 THEN "none"
  ELSE determineScenicSideFromTrajectory(
         [k \in 1..Len(visibleSunPositions) |->
            calculateSunRelativeAngle(visibleSunPositions[k].bearing,
                                      visibleSunPositions[k].azimuth)])

pathPointCount == 20

\* isSunVisibleDuringFlight counting a sun at the twilight limit as visible
isSunVisibleDuringFlight_twilight(data) ==
  data.departureSun.altitude >= visibilityAltitude
    \/ data.arrivalSun.altitude >= visibilityAltitude

isSunVisibleDuringFlight(data) ==
  data.departureSun.altitude > 0 \/ data.arrivalSun.altitude > 0

calculateFlightSunData(departureLat, departureLng, arrivalLat, arrivalLng, departureTime, flightDuration, env) ==
  LET departureSun == getSunPosition(env.sunCalc[0])
      arrivalTime == departureTime + flightDuration
      arrivalSun == getSunPosition(env.sunCalc[pathPointCount])
      departureTimes ==
        calculateSunriseSunset(env.eph.dep, departureLng, departureTime, env.tz)
      arrivalTimes ==
        calculateSunriseSunset(env.eph.arr, arrivalLng, arrivalTime, env.tz)
      pathPoints == generateGreatCirclePath(departureLat, departureLng,
                                            arrivalLat, arrivalLng,
                                            pathPointCount)
      routeBearing == calculateBearing(
                        Atan2Deg(departureLat, departureLng,
                                 arrivalLat, arrivalLng))
      visibleSunPositions ==
        withArrivalSample(pathSamples(pathPoints, env), arrivalSun, routeBearing)
  IN  [departureSun |-> departureSun,
       arrivalSun |-> arrivalSun,
       scenicSide |-> classifyVisible(visibleSunPositions),
       sunriseTime |-> selectSunEvent(departureTimes.sunrise,
                                      arrivalTimes.sunrise,
                                      departureTime, arrivalTime, env.tz),
       sunsetTime |-> selectSunEvent(departureTimes.sunset,
                                     arrivalTimes.sunset,
                                     departureTime, arrivalTime, env.tz),
       flightDuration |-> flightDuration]

-----------------------------------------------------------------------------
(* findAirportByCode (src/lib/sun.ts) and src/app/api/flight/route.ts *)

\* String.prototype.toLowerCase on the strings the model uses
toLowerCase(str) ==
  CASE str = "JFK" -> "jfk"
    [] str = "LAX" -> "lax"
    [] str = "LHR" -> "lhr"
    [] str = "Jfk" -> "jfk"
    [] str = "XXX" -> "xxx"
    [] OTHER -> str

findAirportByCode(code) ==
  LET hits == SelectSeq(AIRPORTS,
                        LAMBDA airport : toLowerCase(airport.code) = toLowerCase(code))
  IN  IF Len(hits) > 0 THEN Some(hits[1]) ELSE Null

\* new Date(dt) on the strings the model uses; Null is an Invalid Date
ParseDate(dt) ==
  CASE dt = "2024-01-01T10:00:00Z" -> Some(10 * MsPerHour)
    [] dt = "2024-01-01T22:00:00Z" -> Some(22 * MsPerHour)
    [] dt = "2024-01-02T02:00:00.000Z" -> Some(MsPerDay + 2 * MsPerHour)
    [] OTHER -> Null

Pad(n, width) ==
  IF width = 3 /\ n < 10 THEN "00" \o ToString(n)
  ELSE IF (width = 3 /\ n < 100) \/ (width = 2 /\ n < 10) THEN "0" \o ToString(n)
  ELSE ToString(n)

\* Date.prototype.toISOString
toISOString(t) ==
  LET c == CivilFromDays(t \div MsPerDay)
      msOfDay == t % MsPerDay
  IN  ToString(c.year) \o "-" \o Pad(c.month + 1, 2) \o "-" \o Pad(c.date, 2)
        \o "T" \o Pad(msOfDay \div MsPerHour, 2)
        \o ":" \o Pad((msOfDay % MsPerHour) \div MsPerMinute, 2)
        \o ":" \o Pad((msOfDay % MsPerMinute) \div MsPerSecond, 2)
        \o "." \o Pad(msOfDay % MsPerSecond, 3) \o "Z"

\* Math.round(x / unit) for x >= 0
RoundDiv(x, unit) == (2 * x + unit) \div (2 * unit)

\* ErrorResponse built without the status option: NextResponse.json then
\* answers 200
ErrorResponse_defaultStatus(status, message) ==
  [status |-> 200, body |-> [success |-> FALSE, error |-> message]]

ErrorResponse(status, message) ==
  [status |-> status, body |-> [success |-> FALSE, error |-> message]]

averageSpeedDefault == 800

\* sunDataJson recommending the seats of the side computed for the departure
\* alone, not of the scenicSide it reports
sunDataJson_staleSide(sunData) ==
  [scenicSide |-> sunData.scenicSide,
   recommendedSeats |->
     getRecommendedSeats(IF sunData.departureSun.altitude > 0
                         THEN "both" ELSE "none"),
   sunriseTime |-> toISOString(sunData.sunriseTime),
   sunsetTime |-> toISOString(sunData.sunsetTime),
   departureSunAltitude |-> sunData.departureSun.altitude,
   arrivalSunAltitude |-> sunData.arrivalSun.altitude]

\* the sunData member of the response, lines 119 and 145-152
sunDataJson(sunData) ==
  [scenicSide |-> sunData.scenicSide,
   recommendedSeats |-> getRecommendedSeats(sunData.scenicSide),
   sunriseTime |-> toISOString(sunData.sunriseTime),
   sunsetTime |-> toISOString(sunData.sunsetTime),
   departureSunAltitude |-> sunData.departureSun.altitude,
   arrivalSunAltitude |-> sunData.arrivalSun.altitude]

\* the response once both airports and the departure time are known,
\* lines 91-158
FlightResponse(departureAirport, arrivalAirport, departureTime, env) ==
  LET distance == haversineDistance(departureAirport.lat, departureAirport.lng,
                                    arrivalAirport.lat, arrivalAirport.lng)
      bearing == calculateBearing(
                   Atan2Deg(departureAirport.lat, departureAirport.lng,
                            arrivalAirport.lat, arrivalAirport.lng))
      duration == calculateFlightDuration(distance, averageSpeedDefault)
      path == generateGreatCirclePath(departureAirport.lat, departureAirport.lng,
                                      arrivalAirport.lat, arrivalAirport.lng,
                                      pathPointCount)
      sunData == calculateFlightSunData(departureAirport.lat, departureAirport.lng,
                                        arrivalAirport.lat, arrivalAirport.lng,
                                        departureTime, duration, env)
      arrivalTime == departureTime + duration
  IN  [status |-> 200,
       body |->
         [success |-> TRUE,
          data |->
            [departure |-> departureAirport,
             arrival |-> arrivalAirport,
             distance |-> RoundDiv(distance, 1000),
             bearing |-> bearing,
             duration |-> RoundDiv(duration, MsPerHour \div 10),
             path |-> path,
             sunData |-> sunDataJson(sunData),
             departureTime |-> toISOString(departureTime),
             arrivalTime |-> toISOString(arrivalTime)]]]

\* GET parsing dt before it compares the two airports
GET_dateFirst(request, env) ==
  LET from == request.from
      to == request.to
      dt == request.dt
      falsy(p) == p = Null \/ p = Some("")
  IN  IF request.fault = "url" THEN ErrorResponse(500, "Internal server error")
      ELSE IF falsy(from) \/ falsy(to) \/ falsy(dt)
      THEN ErrorResponse(400, "Missing required parameters: from, to, dt")
      ELSE LET departureAirport == findAirportByCode(from[1])
               arrivalAirport == findAirportByCode(to[1])
           IN  IF departureAirport = Null
               THEN ErrorResponse(404, "Departure airport '" \o from[1] \o "' not found")
               ELSE IF arrivalAirport = Null
               THEN ErrorResponse(404, "Arrival airport '" \o to[1] \o "' not found")
               ELSE LET departureTime == ParseDate(dt[1])
                    IN  IF departureTime = Null
                        THEN ErrorResponse(400, "Invalid departure time format")
                        ELSE IF departureAirport[1].code = arrivalAirport[1].code
                        THEN ErrorResponse(400, "Departure and arrival airports cannot be the same")
                        ELSE IF request.fault = "toISOString"
                        THEN ErrorResponse(500, "Internal server error")
                        ELSE FlightResponse(departureAirport[1], arrivalAirport[1],
                                            departureTime[1], env)

\* request = [from, to, dt, fault]: the three query parameters as
\* searchParams.get returns them (Null when absent) and the exception the
\* try block meets: "none", "url" (new URL throws, line 43) or "toISOString"
\* (a RangeError out of lines 148-154)
GET(request, env) ==
  LET from == request.from
      to == request.to
      dt == request.dt
      falsy(p) == p = Null \/ p = Some("")
  IN  IF request.fault = "url" THEN ErrorResponse(500, "Internal server error")
      ELSE IF falsy(from) \/ falsy(to) \/ falsy(dt)
      THEN ErrorResponse(400, "Missing required parameters: from, to, dt")
      ELSE LET departureAirport == findAirportByCode(from[1])
               arrivalAirport == findAirportByCode(to[1])
           IN  IF departureAirport = Null
               THEN ErrorResponse(404, "Departure airport '" \o from[1] \o "' not found")
               ELSE IF arrivalAirport = Null
               THEN ErrorResponse(404, "Arrival airport '" \o to[1] \o "' not found")
               ELSE IF departureAirport[1].code = arrivalAirport[1].code
               THEN ErrorResponse(400, "Departure and arrival airports cannot be the same")
               ELSE LET departureTime == ParseDate(dt[1])
                    IN  IF departureTime = Null
                        THEN ErrorResponse(400, "Invalid departure time format")
                        ELSE IF request.fault = "toISOString"
                        THEN ErrorResponse(500, "Internal server error")
                        ELSE FlightResponse(departureAirport[1], arrivalAirport[1],
                                            departureTime[1], env)

-----------------------------------------------------------------------------
(* src/lib/sun-api.ts: fetchSunriseSunset.  date is Null for an Invalid     *)
(* Date.  net is what the network does with the request: net.fetch is       *)
(* "throws" or "responds", net.ok is response.ok, net.body.kind tells       *)
(* whether response.json() throws ("unparsable"), yields null ("null") or   *)
(* yields an object with net.body.status and net.body.results (Null when    *)
(* absent).  The result tells how the promise settles.                      *)

Resolved(value) == [state |-> "resolved", value |-> value]

RejectedWith(reason) == [state |-> "rejected", value |-> reason]

\* fetchSunriseSunset without its try / catch
fetchSunriseSunset_unguarded(date, net) ==
  IF date = Null THEN RejectedWith("RangeError")
  ELSE IF net.fetch = "throws" THEN RejectedWith("TypeError")
  ELSE IF ~net.ok THEN Resolved(Null)
  ELSE IF net.body.kind = "unparsable" THEN RejectedWith("SyntaxError")
  ELSE IF net.body.kind = "null" THEN RejectedWith("TypeError")
  ELSE IF net.body.status # "OK" \/ net.body.results = Null THEN Resolved(Null)
  ELSE Resolved(Some([sunrise |-> ParseDate(net.body.results[1].sunrise),
                      sunset |-> ParseDate(net.body.results[1].sunset)]))

\* lines 29-64: date.toISOString() throws on an Invalid Date (line 36),
\* fetch can throw (41), response.json() can throw (48) and data.status
\* throws when the body is null (50); line 60 catches them all
fetchSunriseSunset(date, net) ==
  IF date = Null THEN Resolved(Null)
  ELSE IF net.fetch = "throws" THEN Resolved(Null)
  ELSE IF ~net.ok THEN Resolved(Null)
  ELSE IF net.body.kind = "unparsable" THEN Resolved(Null)
  ELSE IF net.body.kind = "null" THEN Resolved(Null)
  ELSE IF net.body.status # "OK" \/ net.body.results = Null THEN Resolved(Null)
  ELSE Resolved(Some([sunrise |-> ParseDate(net.body.results[1].sunrise),
                      sunset |-> ParseDate(net.body.results[1].sunset)]))

-----------------------------------------------------------------------------
(* The inputs the model draws *)

ScenicSides == {"left", "right", "both", "none"}

AngleValues == {-180, -6, -5, 0, 5, 6, 180}

RECURSIVE SeqsUpTo(_, _)
SeqsUpTo(S, n) ==
  IF n = 0 THEN {<<>>}
  ELSE LET shorter == SeqsUpTo(S, n - 1)
       IN  shorter \cup {Append(q, x) : q \in shorter, x \in S}

AngleLists == SeqsUpTo(AngleValues, MaxAngles)

AirportSet == {AIRPORTS[i] : i \in 1..Len(AIRPORTS)}

PathInputs ==
  [start : AirportSet, end : AirportSet, numPoints : (-1)..MaxNumPoints]

\* what SunCalc.getPosition can deliver: raw azimuths that the conversion
\* turns into north (0), 5, 6, 354 and 355 degrees, altitudes around the
\* visibility threshold and one in full daylight
RawAzimuths == {-180, -175, -174, 174, 175}
Altitudes == {-7, -6, -5, 10}
SunCalcPositions == [azimuth : RawAzimuths, altitude : Altitudes]

\* a sky that shows position pa at samples 0 .. k-1 and pb from sample k on
Sky(pa, pb, k) == [i \in 0..pathPointCount |-> IF i < k THEN pa ELSE pb]

Skies == {Sky(pa, pb, k) : pa \in SunCalcPositions, pb \in SunCalcPositions,
                           k \in 0..pathPointCount}

\* a course of constant heading
Course(theta) == [i \in 0..(pathPointCount - 1) |-> theta]

Courses == {Course(theta) : theta \in {0, 90}}

\* an event whose computed UT at longitude lng is ut, one that never happens
\* because the sun stays below the horizon, one because it stays above
EventAt(ut, lng) == [cosH |-> 0, T |-> ut + lng * 24]
NeverRises == [cosH |-> 1001, T |-> 0]
NeverSets == [cosH |-> -1001, T |-> 0]

DepartureEvents(lng) ==
  {NeverRises} \cup {EventAt(h * MsPerHour, lng) : h \in {3, 12}}

ArrivalEvents(lng) ==
  {NeverRises, NeverSets} \cup {EventAt(h * MsPerHour, lng) : h \in {1, 2, 3, 7, 12}}

Ephemerides(depLng, arrLng) ==
  [dep : [rise : DepartureEvents(depLng), set : DepartureEvents(depLng)],
   arr : [rise : ArrivalEvents(arrLng), set : ArrivalEvents(arrLng)]]

DefaultEphemeris(depLng, arrLng) ==
  [dep |-> [rise |-> EventAt(12 * MsPerHour, depLng),
            set |-> EventAt(22 * MsPerHour, depLng)],
   arr |-> [rise |-> EventAt(15 * MsPerHour, arrLng),
            set |-> EventAt(1 * MsPerHour, arrLng)]]

DefaultSky == Sky([azimuth |-> -180, altitude |-> 10],
                  [azimuth |-> 174, altitude |-> -7], 10)

TimeZones == {0, -5 * MsPerHour, 9 * MsPerHour}

DepartureTimes == {10 * MsPerHour, 22 * MsPerHour, MsPerDay + 2 * MsPerHour}

FlightDurations == {-1 * MsPerHour, 0, 5 * MsPerHour}

FlightInput(dep, arr, departureTime, flightDuration, env) ==
  [departureLat |-> dep.lat, departureLng |-> dep.lng,
   arrivalLat |-> arr.lat, arrivalLng |-> arr.lng,
   departureTime |-> departureTime, flightDuration |-> flightDuration,
   env |-> env]

\* one flight under every sky and course
SkyInputs ==
  {FlightInput(JFK, LAX, 10 * MsPerHour, 5 * MsPerHour,
               [sunCalc |-> sky, atan2 |-> course,
                eph |-> DefaultEphemeris(JFK.lng, LAX.lng), tz |-> 0]) :
     sky \in Skies, course \in Courses}

\* one sky, every departure time, duration, time zone and ephemeris
TimeInputs ==
  {FlightInput(JFK, LAX, t, d,
               [sunCalc |-> DefaultSky, atan2 |-> Course(-86),
                eph |-> e, tz |-> tz]) :
     t \in DepartureTimes, d \in FlightDurations, tz \in TimeZones,
     e \in Ephemerides(JFK.lng, LAX.lng)}

\* departure and arrival at the same coordinates
CoincidentInputs ==
  {FlightInput(a, a, t, d,
               [sunCalc |-> Sky(pa, pb, 10), atan2 |-> Course(0),
                eph |-> DefaultEphemeris(a.lng, a.lng), tz |-> 0]) :
     a \in AirportSet, t \in DepartureTimes, d \in {0, 5 * MsPerHour},
     pa \in {[azimuth |-> -90, altitude |-> 10], [azimuth |-> 0, altitude |-> 10],
             [azimuth |-> 0, altitude |-> -7]},
     pb \in {[azimuth |-> 90, altitude |-> 10], [azimuth |-> 0, altitude |-> -7]}}

\* a sky that shows pa at samples 0 .. k-1, pb at the later path samples and
\* parr at the arrival
ArrivalSky(pa, pb, parr, k) ==
  [i \in 0..pathPointCount |->
     IF i < k THEN pa ELSE IF i < pathPointCount THEN pb ELSE parr]

\* a course that turns from heading theta1 to heading theta2 half way
Turn(theta1, theta2) ==
  [i \in 0..(pathPointCount - 1) |-> IF i < 10 THEN theta1 ELSE theta2]

\* flights on a turning course on which the sun can be lost before the
\* arrival and seen again at the arrival
TurningInputs ==
  {FlightInput(JFK, LAX, 10 * MsPerHour, 5 * MsPerHour,
               [sunCalc |-> ArrivalSky(pa, pb, parr, k), atan2 |-> Turn(theta1, theta2),
                eph |-> DefaultEphemeris(JFK.lng, LAX.lng), tz |-> 0]) :
     pa \in {[azimuth |-> -90, altitude |-> 10], [azimuth |-> 90, altitude |-> 10]},
     pb \in {[azimuth |-> 0, altitude |-> -6], [azimuth |-> 0, altitude |-> -7],
             [azimuth |-> -90, altitude |-> 10]},
     parr \in {[azimuth |-> -90, altitude |-> 10], [azimuth |-> -90, altitude |-> -5],
               [azimuth |-> 0, altitude |-> -6]},
     k \in {0, 5, 20},
     theta1 \in {0, 180, -86}, theta2 \in {0, 180, -86}}

FlightInputs == SkyInputs \cup TimeInputs \cup CoincidentInputs \cup TurningInputs

\* the range of Math.atan2, in degrees
Atan2Range == (-180)..180

SunPositionInputs == [azimuth : Atan2Range, altitude : {-90, -6, 0, 90}]

\* a call of calculateBearing: on a pair of airports (pair = <<lat1, lng1,
\* lat2, lng2>>), or on any pair of points (pair = <<>>) for which
\* Math.atan2 delivers theta
BearingInputs ==
  {[pair |-> <<a.lat, a.lng, b.lat, b.lng>>,
    theta |-> Atan2Deg(a.lat, a.lng, b.lat, b.lng)] : a \in AirportSet, b \in AirportSet}
  \cup {[pair |-> <<>>, theta |-> theta] : theta \in Atan2Range}

DistanceInputs == [from : AirportSet, to : AirportSet]

DurationInputs ==
  {haversineDistance(a.lat, a.lng, b.lat, b.lng) : a \in AirportSet, b \in AirportSet}

RelativeAngleInputs ==
  [flightBearing : {-90, 0, 1, 90, 179, 180, 181, 270, 359, 360, 450},
   sunAzimuth : {-90, 0, 1, 90, 179, 180, 181, 270, 359, 360, 450}]

\* hour-angle cosines on both sides of each limit of sun.ts:71-72; local mean
\* times T that put UT + 24 below 0, within [0, 24) and above 24 hours
HourAngleEvents ==
  [cosH : {-1001, -1000, 0, 1000, 1001},
   T : {-33 * MsPerHour, 7 * MsPerHour, 17 * MsPerHour}]

SunriseSunsetInputs ==
  [eph : [rise : HourAngleEvents, set : HourAngleEvents],
   lon : {a.lng : a \in AirportSet},
   date : DepartureTimes,
   tz : TimeZones]

\* the bodies the sunrise-sunset API can answer with
ApiResults ==
  {Null} \cup {Some([sunrise |-> r, sunset |-> t]) :
                 r \in {"2024-01-01T10:00:00Z", ""}, t \in {"2024-01-01T22:00:00Z"}}

ApiBodies ==
  [kind : {"unparsable", "null"}, status : {""}, results : {Null}]
    \cup [kind : {"object"}, status : {"OK", "INVALID_REQUEST"}, results : ApiResults]

Networks == [fetch : {"throws", "responds"}, ok : BOOLEAN, body : ApiBodies]

FetchInputs == [date : {Null, Some(10 * MsPerHour)}, net : Networks]

\* host time zones: UTC, Tokyo (no daylight saving), New York (one hour
\* forward from 2024-03-10T07:00Z to 2024-11-03T06:00Z) and Sydney (one hour
\* back from 2024-04-06T16:00Z to 2024-10-05T16:00Z)
HostZones ==
  {[name |-> "UTC", offset |-> 0, shift |-> 0, from |-> 0, to |-> 0],
   [name |-> "Asia/Tokyo", offset |-> 9 * 60, shift |-> 0, from |-> 0, to |-> 0],
   [name |-> "America/New_York", offset |-> -5 * 60, shift |-> 60,
    from |-> 69 * MinutesPerDay + 7 * 60, to |-> 307 * MinutesPerDay + 6 * 60],
   [name |-> "Australia/Sydney", offset |-> 11 * 60, shift |-> -60,
    from |-> 96 * MinutesPerDay + 16 * 60, to |-> 278 * MinutesPerDay + 16 * 60]}

\* every half hour of January 1, January 2, February 29, July 1 and
\* December 31 of 2024 (UTC days)
DayOfYearInstants ==
  {day * MinutesPerDay + 30 * h : day \in {0, 1, 59, 182, 365}, h \in 0..47}

DayOfYearInputs == [d : DayOfYearInstants, zone : HostZones]

QueryValues(S) == {Null, Some("")} \cup {Some(v) : v \in S}

Requests ==
  [from : QueryValues({"JFK", "Jfk", "XXX"}),
   to : QueryValues({"LAX", "jfk", "XXX"}),
   dt : QueryValues({"tomorrow", "2024-01-01T10:00:00Z", "2024-01-01T22:00:00Z"}),
   fault : {"none", "url", "toISOString"}]

RouteEnvs ==
  {[sunCalc |-> Sky(pa, pb, 10), atan2 |-> Course(-86),
    eph |-> DefaultEphemeris(JFK.lng, LAX.lng), tz |-> 0] :
     pa \in {[azimuth |-> -180, altitude |-> 10], [azimuth |-> 0, altitude |-> -7]},
     pb \in {[azimuth |-> 0, altitude |-> 10], [azimuth |-> 0, altitude |-> -7]}}

-----------------------------------------------------------------------------
(* src/components/SeatLegend.tsx: ThemeToggle, line 120 *)

Tabs == 1..MaxTabs

\* shouldBeDark letting the system preference win over a saved 'light'
shouldBeDark_systemFirst(savedTheme, prefersDarkNow) ==
  prefersDarkNow \/ savedTheme = Some("dark")

\* savedTheme is localStorage.getItem('theme'), Null when there is none
shouldBeDark(savedTheme, prefersDarkNow) ==
  savedTheme = Some("dark") \/ (savedTheme = Null /\ prefersDarkNow)

-----------------------------------------------------------------------------
(* The state machine: a caller invokes one operation and takes its result *)

\* no page is open: the engine is called on its own
NoPage ==
  /\ localStorage = Null
  /\ mounted = [t \in Tabs |-> FALSE]
  /\ isDark = [t \in Tabs |-> FALSE]
  /\ classList = [t \in Tabs |-> FALSE]
  /\ toggled = <<>>
  /\ togglesAtMount = [t \in Tabs |-> 0]

\* no result page is open
NoVisualize ==
  /\ searchParams = ""
  /\ flightData = Null
  /\ loading = TRUE
  /\ error = Null
  /\ pending = {}
  /\ fetches = 0
  /\ outcomes = [n \in {} |-> ""]

\* no form is open
NoForm ==
  /\ formData = [from |-> "", to |-> "", date |-> "", time |-> ""]
  /\ isSubmitting = FALSE
  /\ formError = ""
  /\ pushed = Null
  /\ submissions = 0
  /\ clock = [now |-> 0, tz |-> 0]

Init ==
  /\ pc = "idle"
  /\ op = "none"
  /\ args = <<>>
  /\ ret = <<>>
  /\ prefersDark = FALSE
  /\ NoPage
  /\ NoForm
  /\ NoVisualize

Returned(name, a, r) ==
  /\ pc' = "returned"
  /\ op' = name
  /\ args' = a
  /\ ret' = r
  /\ UNCHANGED exceptEngine

CallDetermineScenicSide ==
  /\ pc = "idle"
  /\ \E relativeAngles \in AngleLists :
       Returned("determineScenicSideFromTrajectory", relativeAngles,
                determineScenicSideFromTrajectory(relativeAngles))

CallGetRecommendedSeats ==
  /\ pc = "idle"
  /\ \E scenicSide \in ScenicSides :
       Returned("getRecommendedSeats", scenicSide, getRecommendedSeats(scenicSide))

CallGenerateGreatCirclePath ==
  /\ pc = "idle"
  /\ \E in \in PathInputs :
       Returned("generateGreatCirclePath", in,
                generateGreatCirclePath(in.start.lat, in.start.lng,
                                        in.end.lat, in.end.lng, in.numPoints))

CallCalculateFlightSunData ==
  /\ pc = "idle"
  /\ \E in \in FlightInputs :
       Returned("calculateFlightSunData", in,
                calculateFlightSunData(in.departureLat, in.departureLng,
                                       in.arrivalLat, in.arrivalLng,
                                       in.departureTime, in.flightDuration, in.env))

HandleGET ==
  /\ pc = "idle"
  /\ \E request \in Requests, env \in RouteEnvs :
       Returned("GET", [request |-> request, env |-> env], GET(request, env))

CallGetSunPosition ==
  /\ pc = "idle"
  /\ \E pos \in SunPositionInputs :
       Returned("getSunPosition", pos, getSunPosition(pos))

CallCalculateBearing ==
  /\ pc = "idle"
  /\ \E in \in BearingInputs :
       Returned("calculateBearing", in, calculateBearing(in.theta))

CallHaversineDistance ==
  /\ pc = "idle"
  /\ \E in \in DistanceInputs :
       Returned("haversineDistance", in,
                haversineDistance(in.from.lat, in.from.lng, in.to.lat, in.to.lng))

CallCalculateFlightDuration ==
  /\ pc = "idle"
  /\ \E distance \in DurationInputs :
       Returned("calculateFlightDuration", distance,
                calculateFlightDuration(distance, averageSpeedDefault))

CallCalculateSunRelativeAngle ==
  /\ pc = "idle"
  /\ \E in \in RelativeAngleInputs :
       Returned("calculateSunRelativeAngle", in,
                calculateSunRelativeAngle(in.flightBearing, in.sunAzimuth))

CallCalculateSunriseSunset ==
  /\ pc = "idle"
  /\ \E in \in SunriseSunsetInputs :
       Returned("calculateSunriseSunset", in,
                calculateSunriseSunset(in.eph, in.lon, in.date, in.tz))

CallFetchSunriseSunset ==
  /\ pc = "idle"
  /\ \E in \in FetchInputs :
       Returned("fetchSunriseSunset", in, fetchSunriseSunset(in.date, in.net))

CallDayOfYear ==
  /\ pc = "idle"
  /\ \E in \in DayOfYearInputs :
       Returned("dayOfYear", in, dayOfYear(in.d, in.zone))

Done ==
  /\ pc = "returned"
  /\ pc' = "idle"
  /\ op' = "none"
  /\ args' = <<>>
  /\ ret' = <<>>
  /\ UNCHANGED exceptEngine

Next ==
  \/ CallDetermineScenicSide
  \/ CallGetRecommendedSeats
  \/ CallGenerateGreatCirclePath
  \/ CallCalculateFlightSunData
  \/ HandleGET
  \/ CallGetSunPosition
  \/ CallCalculateBearing
  \/ CallHaversineDistance
  \/ CallCalculateFlightDuration
  \/ CallCalculateSunRelativeAngle
  \/ CallCalculateSunriseSunset
  \/ CallDayOfYear
  \/ CallFetchSunriseSunset
  \/ Done

Spec == Init /\ [][Next]_vars

-----------------------------------------------------------------------------
(* src/components/SeatLegend.tsx: ThemeToggle.  Each tab is a document with *)
(* its own ThemeToggle; the tabs share localStorage and the system's        *)
(* colour-scheme preference.  classList[t] is TRUE when the root element of *)
(* tab t carries the class 'dark'.  toggled is the list of the themes       *)
(* chosen by toggleTheme so far (TRUE for dark), togglesAtMount[t] its      *)
(* length when the component of tab t mounted.                              *)

InitTheme ==
  /\ pc = "idle"
  /\ op = "none"
  /\ args = <<>>
  /\ ret = <<>>
  /\ prefersDark \in BOOLEAN
  /\ NoPage
  /\ NoForm
  /\ NoVisualize

\* lines 112-113 and the effect of lines 115-130
Mount(t) ==
  /\ ~mounted[t]
  /\ LET savedTheme == localStorage
         dark == shouldBeDark(savedTheme, prefersDark)
     IN  /\ mounted' = [mounted EXCEPT ![t] = TRUE]
         /\ isDark' = [isDark EXCEPT ![t] = dark]
         /\ classList' = [classList EXCEPT ![t] = dark]
  /\ togglesAtMount' = [togglesAtMount EXCEPT ![t] = Len(toggled)]
  /\ UNCHANGED <<localStorage, prefersDark, toggled>>
  /\ UNCHANGED exceptTheme

\* lines 137-148; the button exists only once mounted (lines 132-135)
toggleTheme(t) ==
  /\ mounted[t]
  /\ Len(toggled) < MaxToggles
  /\ LET newIsDark == ~isDark[t]
     IN  /\ isDark' = [isDark EXCEPT ![t] = newIsDark]
         /\ classList' = [classList EXCEPT ![t] = newIsDark]
         /\ localStorage' = Some(IF newIsDark THEN "dark" ELSE "light")
         /\ toggled' = Append(toggled, newIsDark)
  /\ UNCHANGED <<prefersDark, mounted, togglesAtMount>>
  /\ UNCHANGED exceptTheme

\* the component goes away: by a navigation, which keeps the document, or by
\* a reload, which starts from the served document (no 'dark' class); its
\* state is discarded and the next mount starts from useState(false)
Unmount(t) ==
  /\ mounted[t]
  /\ mounted' = [mounted EXCEPT ![t] = FALSE]
  /\ isDark' = [isDark EXCEPT ![t] = FALSE]
  /\ \E c \in {classList[t], FALSE} : classList' = [classList EXCEPT ![t] = c]
  /\ togglesAtMount' = [togglesAtMount EXCEPT ![t] = 0]
  /\ UNCHANGED <<localStorage, prefersDark, toggled>>
  /\ UNCHANGED exceptTheme

\* the user changes the colour scheme of the system
PreferenceChanges ==
  /\ prefersDark' = ~prefersDark
  /\ UNCHANGED <<localStorage, mounted, isDark, classList, toggled, togglesAtMount>>
  /\ UNCHANGED exceptTheme

NextTheme ==
  \/ \E t \in Tabs : Mount(t)
  \/ \E t \in Tabs : toggleTheme(t)
  \/ \E t \in Tabs : Unmount(t)
  \/ PreferenceChanges

SpecTheme == InitTheme /\ [][NextTheme]_vars

-----------------------------------------------------------------------------
(* src/components/FlightInputForm.tsx.  formData.date and formData.time are *)
(* the strings of the two inputs; clock.now is the browser's clock and      *)
(* clock.tz its time-zone offset in ms; pushed is the query that            *)
(* router.push was called with, Null when it has not been called;          *)
(* submissions counts the calls of handleSubmit.                            *)

\* the first ten characters of toISOString: YYYY-MM-DD
isoDate(t) ==
  LET c == CivilFromDays(t \div MsPerDay)
  IN  ToString(c.year) \o "-" \o Pad(c.month + 1, 2) \o "-" \o Pad(c.date, 2)

\* toTimeString().slice(0, 5): HH:MM in local time
localTime(t, tz) ==
  LET msOfDay == (t + tz) % MsPerDay
  IN  Pad(msOfDay \div MsPerHour, 2) \o ":"
        \o Pad((msOfDay % MsPerHour) \div MsPerMinute, 2)

\* new Date(date + 'T' + time): the local date-time the two strings spell,
\* Null (an Invalid Date) when they spell none; the model reads the days
\* 2023-12-31 .. 2024-01-03 and the whole hours
newDateLocal(date, time, tz) ==
  LET days == {d \in (-1)..2 : isoDate(d * MsPerDay) = date}
      hours == {h \in 0..23 : Pad(h, 2) \o ":00" = time}
  IN  IF days = {} \/ hours = {} THEN Null
      ELSE Some((CHOOSE d \in days : TRUE) * MsPerDay
                  + (CHOOSE h \in hours : TRUE) * MsPerHour - tz)

\* lines 18-27
getInitialFormData(at) ==
  LET futureTime == at.now + 2 * MsPerHour
  IN  [from |-> "", to |-> "", date |-> isoDate(futureTime),
       time |-> localTime(futureTime, at.tz)]

Rejected(message) == [error |-> message, isSubmitting |-> FALSE, push |-> Null]

\* handleSubmit accepting a departure at the present instant
submitOutcome_notPast(form, at) ==
  IF form.from = "" \/ form.to = ""
  THEN Rejected("Please select both departure and arrival airports")
  ELSE IF form.from = form.to
  THEN Rejected("Departure and arrival airports cannot be the same")
  ELSE IF form.date = "" \/ form.time = ""
  THEN Rejected("Please select a departure date and time")
  ELSE LET departureDateTime == newDateLocal(form.date, form.time, at.tz)
       IN  IF departureDateTime = Null
           THEN Rejected("Invalid date or time format")
           ELSE IF departureDateTime[1] < at.now
           THEN Rejected("Departure time must be in the future")
           ELSE [error |-> "", isSubmitting |-> TRUE,
                 push |-> Some([from |-> form.from, to |-> form.to,
                                dt |-> toISOString(departureDateTime[1])])]

\* lines 86-132: what handleSubmit leaves in error and isSubmitting, and the
\* query it pushes.  An Invalid Date passes the comparison of line 114 and
\* makes toISOString throw (line 124), which line 128 catches.
submitOutcome(form, at) ==
  IF form.from = "" \/ form.to = ""
  THEN Rejected("Please select both departure and arrival airports")
  ELSE IF form.from = form.to
  THEN Rejected("Departure and arrival airports cannot be the same")
  ELSE IF form.date = "" \/ form.time = ""
  THEN Rejected("Please select a departure date and time")
  ELSE LET departureDateTime == newDateLocal(form.date, form.time, at.tz)
       IN  IF departureDateTime # Null /\ departureDateTime[1] <= at.now
           THEN Rejected("Departure time must be in the future")
           ELSE IF departureDateTime = Null
           THEN Rejected("Invalid date or time format")
           ELSE [error |-> "", isSubmitting |-> TRUE,
                 push |-> Some([from |-> form.from, to |-> form.to,
                                dt |-> toISOString(departureDateTime[1])])]

FormNows == {8 * MsPerHour, 10 * MsPerHour, 23 * MsPerHour}
FormZones == {0, -5 * MsPerHour}
FormCodes == {"JFK", "LAX"}
FormDates == {"", "2024-01-01", "12345-01-01"}
FormTimes == {"", "10:00"}

InitForm ==
  /\ pc = "idle"
  /\ op = "none"
  /\ args = <<>>
  /\ ret = <<>>
  /\ prefersDark = FALSE
  /\ NoPage
  /\ NoVisualize
  /\ clock \in [now : FormNows, tz : FormZones]
  /\ formData = getInitialFormData(clock)
  /\ isSubmitting = FALSE
  /\ formError = ""
  /\ pushed = Null
  /\ submissions = 0

\* lines 75-84
selectAirport(code, field) ==
  /\ pushed = Null
  /\ formData' = [formData EXCEPT ![field] = code]
  /\ UNCHANGED <<isSubmitting, formError, pushed, submissions, clock>>
  /\ UNCHANGED exceptForm

\* lines 232 and 242: the onChange of the date and of the time input
ChangeDateOrTime(field, value) ==
  /\ pushed = Null
  /\ formData' = [formData EXCEPT ![field] = value]
  /\ UNCHANGED <<isSubmitting, formError, pushed, submissions, clock>>
  /\ UNCHANGED exceptForm

\* lines 86-132; the submit button is disabled while isSubmitting (line 265)
handleSubmit ==
  /\ pushed = Null
  /\ ~isSubmitting
  /\ submissions < MaxSubmissions
  /\ LET outcome == submitOutcome(formData, clock)
     IN  /\ formError' = outcome.error
         /\ isSubmitting' = outcome.isSubmitting
         /\ pushed' = outcome.push
  /\ submissions' = submissions + 1
  /\ UNCHANGED <<formData, clock>>
  /\ UNCHANGED exceptForm

\* after the navigation the user comes back to the form, which mounts anew
ReturnToForm ==
  /\ pushed # Null
  /\ formData' = getInitialFormData(clock)
  /\ isSubmitting' = FALSE
  /\ formError' = ""
  /\ pushed' = Null
  /\ UNCHANGED <<submissions, clock>>
  /\ UNCHANGED exceptForm

\* time passes
Tick ==
  /\ \E later \in FormNows :
       /\ later > clock.now
       /\ clock' = [clock EXCEPT !.now = later]
  /\ UNCHANGED <<formData, isSubmitting, formError, pushed, submissions>>
  /\ UNCHANGED exceptForm

NextForm ==
  \/ \E code \in FormCodes, field \in {"from", "to"} : selectAirport(code, field)
  \/ \E value \in FormDates : ChangeDateOrTime("date", value)
  \/ \E value \in FormTimes : ChangeDateOrTime("time", value)
  \/ handleSubmit
  \/ ReturnToForm
  \/ Tick

SpecForm == InitForm /\ [][NextForm]_vars

-----------------------------------------------------------------------------
(* src/app/demo/page.tsx: VisualizeClient.  searchParams is the query the   *)
(* component was last rendered with; pending holds the fetches started and  *)
(* not yet settled, each with the number it was started as and its query;   *)
(* outcomes[n] is how fetch n settled.                                      *)

Queries == {"from=JFK&to=LAX", "from=JFK&to=XXX"}

\* how a fetch can settle: the API answers success, the API answers an
\* error, or fetch or response.json() throws
Settlements == {"success", "refused", "thrown"}

\* the state a settling fetch leaves in flightData (lines 98-103)
flightDataAfter(current, query, settlement) ==
  IF settlement = "success" THEN Some([query |-> query]) ELSE current

\* the state a settling fetch leaves in error (lines 98-100, 104-105)
errorAfter(current, query, settlement) ==
  CASE settlement = "success" -> current
    [] settlement = "refused" -> Some("error of " \o query)
    [] settlement = "thrown" -> Some("Failed to fetch flight data")

\* lines 85-87, and the effect of lines 89-113 on the first render
InitVisualize ==
  /\ pc = "idle"
  /\ op = "none"
  /\ args = <<>>
  /\ ret = <<>>
  /\ prefersDark = FALSE
  /\ NoPage
  /\ NoForm
  /\ searchParams \in Queries
  /\ flightData = Null
  /\ loading = TRUE
  /\ error = Null
  /\ pending = {[id |-> 1, query |-> searchParams]}
  /\ fetches = 1
  /\ outcomes = [n \in {} |-> ""]

\* the component is rendered with other searchParams: the effect runs again
\* (line 113) and starts a fetch; no state is reset
ChangeSearchParams(query) ==
  /\ fetches < MaxFetches
  /\ query # searchParams
  /\ searchParams' = query
  /\ pending' = pending \cup {[id |-> fetches + 1, query |-> query]}
  /\ fetches' = fetches + 1
  /\ UNCHANGED <<flightData, loading, error, outcomes>>
  /\ UNCHANGED exceptVisualize

\* fetchFlightData resumes after its awaits (lines 96-109); fetches settle
\* in any order
Settle(id, settlement) ==
  /\ \E f \in pending :
       /\ f.id = id
       /\ flightData' = flightDataAfter(flightData, f.query, settlement)
       /\ error' = errorAfter(error, f.query, settlement)
       /\ pending' = pending \ {f}
  /\ loading' = FALSE
  /\ outcomes' = [n \in (DOMAIN outcomes) \cup {id} |->
                    IF n = id THEN settlement ELSE outcomes[n]]
  /\ UNCHANGED <<searchParams, fetches>>
  /\ UNCHANGED exceptVisualize

NextVisualize ==
  \/ \E query \in Queries : ChangeSearchParams(query)
  \/ \E id \in 1..MaxFetches, settlement \in Settlements : Settle(id, settlement)

SpecVisualize == InitVisualize /\ [][NextVisualize]_vars

-----------------------------------------------------------------------------
(* Properties *)

IsFlightSunData(r) ==
  DOMAIN r = {"departureSun", "arrivalSun", "scenicSide", "sunriseTime",
              "sunsetTime", "flightDuration"}

FlightReturned == pc = "returned" /\ op = "calculateFlightSunData"

\* the altitude of the sun at sample i of the flight just computed: samples
\* 0..19 are the path samples at fractions i/20, sample 20 is the arrival
SampleAltitude(i) == args.env.sunCalc[i].altitude

NoSampleVisible == \A i \in 0..20 : ~(SampleAltitude(i) > -6)

\* C1: calculateFlightSunData returns scenicSide 'none' if and only if none
\* of its 21 samples has solar altitude > -6 degrees; the seats recommended
\* for that result are then the empty list, and the call returns a
\* FlightSunData (no error).
C1_NoneIffNoVisibleSample ==
  FlightReturned =>
    /\ IsFlightSunData(ret)
    /\ (ret.scenicSide = "none") <=> NoSampleVisible
    /\ NoSampleVisible => getRecommendedSeats(ret.scenicSide) = <<>>

\* a flight wholly at night, one sample of it exactly at -6 degrees
C1_Witness ==
  /\ FlightReturned
  /\ NoSampleVisible
  /\ \E i \in 0..20 : SampleAltitude(i) = -6
  /\ ret.scenicSide = "none"

ClassifierReturned == pc = "returned" /\ op = "determineScenicSideFromTrajectory"

SomeAngleLeft == \E i \in 1..Len(args) : args[i] < -5

SomeAngleRight == \E i \in 1..Len(args) : args[i] > 5

\* C2: determineScenicSideFromTrajectory returns 'both' when some angle is
\* < -5 and some is > 5, 'right' when some is > 5 and none < -5, 'left' when
\* some is < -5 and none > 5, 'both' when every angle lies in [-5, 5]; it
\* never returns 'none'.
C2_TrajectoryReduction ==
  ClassifierReturned =>
    /\ (SomeAngleLeft /\ SomeAngleRight) => ret = "both"
    /\ (SomeAngleRight /\ ~SomeAngleLeft) => ret = "right"
    /\ (SomeAngleLeft /\ ~SomeAngleRight) => ret = "left"
    /\ (\A i \in 1..Len(args) : args[i] >= -5 /\ args[i] <= 5) => ret = "both"
    /\ ret # "none"

\* angles of exactly -5 and 5, and nothing beyond them: neither side
C2_Witness ==
  /\ ClassifierReturned
  /\ \E i \in 1..Len(args) : args[i] = 5
  /\ \E i \in 1..Len(args) : args[i] = -5
  /\ ~SomeAngleLeft /\ ~SomeAngleRight
  /\ ret = "both"

SeatsReturned == pc = "returned" /\ op = "getRecommendedSeats"

GetReturned == pc = "returned" /\ op = "GET"

PathReturned == pc = "returned" /\ op = "generateGreatCirclePath"

\* the point of the great circle from a to b at fraction num / den
GreatCirclePoint(a, b, num, den) ==
  [from |-> <<a.lng, a.lat>>, to |-> <<b.lng, b.lat>>,
   t |-> IF a = b THEN <<0, 1>> ELSE Fraction(num, den)]

\* C5: generateGreatCirclePath(a, b, n) for n >= 2 returns exactly n points,
\* taken at the fractions k/(n-1), k = 0..n-1; its element at index 0 is a
\* and its element at index n-1 is b.
C5_PathHasNumPoints ==
  (PathReturned /\ args.numPoints >= 2) =>
    LET n == args.numPoints
    IN  /\ Len(ret) = n
        /\ \A k \in 0..(n - 1) :
             ret[k + 1] = GreatCirclePoint(args.start, args.end, k, n - 1)
        /\ ret[1] = GreatCirclePoint(args.start, args.end, 0, 1)
        /\ ret[n] = GreatCirclePoint(args.start, args.end, 1, 1)

\* the instants of the flight just computed and the events of its two ends
DepartureInstant == args.departureTime

ArrivalInstant == args.departureTime + args.flightDuration

DepartureSunTimes ==
  calculateSunriseSunset(args.env.eph.dep, args.departureLng,
                         DepartureInstant, args.env.tz)

ArrivalSunTimes ==
  calculateSunriseSunset(args.env.eph.arr, args.arrivalLng,
                         ArrivalInstant, args.env.tz)

\* the event lies strictly between the departure and the arrival instant
MidFlight(event) ==
  event # Null /\ event[1] > DepartureInstant /\ event[1] < ArrivalInstant

\* the departure location's value for the departure date, or its fallback
DepartureValue(event) == IF event # Null THEN event[1] ELSE DepartureInstant

\* C6: sunriseTime (resp. sunsetTime) is the arrival location's sunrise
\* (resp. sunset) only if that instant lies strictly between the departure
\* and the arrival instant; in every other case it is the departure
\* location's value for the departure date, or its fallback.
C6_ArrivalEventOnlyMidFlight ==
  FlightReturned =>
    /\ \/ ret.sunriseTime = DepartureValue(DepartureSunTimes.sunrise)
       \/ /\ MidFlight(ArrivalSunTimes.sunrise)
          /\ ret.sunriseTime = ArrivalSunTimes.sunrise[1]
    /\ \/ ret.sunsetTime = DepartureValue(DepartureSunTimes.sunset)
       \/ /\ MidFlight(ArrivalSunTimes.sunset)
          /\ ret.sunsetTime = ArrivalSunTimes.sunset[1]

\* a flight over a date boundary reports the arrival's sunrise, which differs
\* from the departure's
C6_Witness ==
  /\ FlightReturned
  /\ MidFlight(ArrivalSunTimes.sunrise)
  /\ ret.sunriseTime = ArrivalSunTimes.sunrise[1]
  /\ ret.sunriseTime # DepartureValue(DepartureSunTimes.sunrise)

\* C7: whenever the arrival location's sunrise (resp. sunset) falls strictly
\* between the departure and the arrival instant, calculateFlightSunData
\* reports it as sunriseTime (resp. sunsetTime), whether or not the flight
\* crosses a calendar-date boundary.
C7_MidFlightArrivalEventReported ==
  FlightReturned =>
    /\ MidFlight(ArrivalSunTimes.sunrise) =>
         ret.sunriseTime = ArrivalSunTimes.sunrise[1]
    /\ MidFlight(ArrivalSunTimes.sunset) =>
         ret.sunsetTime = ArrivalSunTimes.sunset[1]

\* C9: calculateFlightSunData signals an InvalidInput error, instead of
\* returning a FlightSunData, whenever the arrival instant is not strictly
\* after the departure instant.
C9_NonPositiveDurationRejected ==
  (FlightReturned /\ ~(ArrivalInstant > DepartureInstant)) =>
    ~IsFlightSunData(ret)

\* C10: calculateFlightSunData never fails and never returns a null
\* sunriseTime or sunsetTime; when the departure location has no sunrise
\* (resp. sunset) and the arrival's event is not the one reported,
\* sunriseTime (resp. sunsetTime) equals the departure instant.
C10_PolarFallbackIsDeparture ==
  FlightReturned =>
    /\ IsFlightSunData(ret)
    /\ ret.sunriseTime \in Int /\ ret.sunsetTime \in Int
    /\ (/\ DepartureSunTimes.sunrise = Null
        /\ ~(/\ ArrivalSunTimes.sunrise # Null
             /\ ret.sunriseTime = ArrivalSunTimes.sunrise[1]))
         => ret.sunriseTime = DepartureInstant
    /\ (/\ DepartureSunTimes.sunset = Null
        /\ ~(/\ ArrivalSunTimes.sunset # Null
             /\ ret.sunsetTime = ArrivalSunTimes.sunset[1]))
         => ret.sunsetTime = DepartureInstant

\* no sunrise at the departure, none reported from the arrival, on a flight
\* of positive duration: the departure instant is reported
C10_Witness ==
  /\ FlightReturned
  /\ args.flightDuration > 0
  /\ DepartureSunTimes.sunrise = Null
  /\ ArrivalSunTimes.sunrise # Null
  /\ ret.sunriseTime = DepartureInstant

\* what a request is, whatever the handler makes of it
ParamMissing(p) == p = Null \/ p = Some("")

SomeParamMissing ==
  \/ ParamMissing(args.request.from)
  \/ ParamMissing(args.request.to)
  \/ ParamMissing(args.request.dt)

Unresolvable(p) == ~ParamMissing(p) /\ findAirportByCode(p[1]) = Null

SomeAirportUnresolvable ==
  Unresolvable(args.request.from) \/ Unresolvable(args.request.to)

DtUnparsable ==
  ~ParamMissing(args.request.dt) /\ ParseDate(args.request.dt[1]) = Null

SameAirport ==
  /\ ~ParamMissing(args.request.from) /\ ~ParamMissing(args.request.to)
  /\ ~SomeAirportUnresolvable
  /\ findAirportByCode(args.request.from[1]) = findAirportByCode(args.request.to[1])

\* an exception is thrown while the request is handled
ExceptionOccurs ==
  \/ args.request.fault = "url"
  \/ /\ args.request.fault = "toISOString"
     /\ ~SomeParamMissing /\ ~SomeAirportUnresolvable
     /\ ~SameAirport /\ ~DtUnparsable

ErrorBodyShape ==
  ~ret.body.success =>
    /\ DOMAIN ret.body = {"success", "error"}
    /\ ret.body.error # ""

SuccessOnlyForValidRequest ==
  ret.body.success =>
    /\ ~SomeParamMissing
    /\ ~SomeAirportUnresolvable
    /\ ~DtUnparsable

\* C8, as stated: every error response has body {success:false, error}
\* without data, with status 400 when from, to or dt is missing or dt cannot
\* be parsed, 404 when an airport code cannot be resolved and 500 when an
\* unexpected exception occurs; success:true only when all parameters are
\* present, both airports resolve and dt parses.
C8_AsStated ==
  GetReturned =>
    /\ ErrorBodyShape
    /\ (~ExceptionOccurs /\ (SomeParamMissing \/ DtUnparsable)) => ret.status = 400
    /\ (~ExceptionOccurs /\ SomeAirportUnresolvable) => ret.status = 404
    /\ ExceptionOccurs => ret.status = 500
    /\ SuccessOnlyForValidRequest

\* C8, amended: the statuses follow the order of the checks.  Every error
\* response has body {success:false, error} without data; its status is 500
\* when an unexpected exception occurs and otherwise 400 when from, to or dt
\* is missing, else 404 when an airport code cannot be resolved, else 400
\* when dt cannot be parsed; success:true only when all parameters are
\* present, both airports resolve and dt parses.
C8_ErrorStatusByFirstFailedCheck ==
  GetReturned =>
    /\ ErrorBodyShape
    /\ ExceptionOccurs => (ret.status = 500 /\ ~ret.body.success)
    /\ (~ExceptionOccurs /\ SomeParamMissing) =>
         (ret.status = 400 /\ ~ret.body.success)
    /\ (~ExceptionOccurs /\ ~SomeParamMissing /\ SomeAirportUnresolvable) =>
         (ret.status = 404 /\ ~ret.body.success)
    /\ (~ExceptionOccurs /\ ~SomeParamMissing /\ ~SomeAirportUnresolvable
          /\ DtUnparsable) =>
         (ret.status = 400 /\ ~ret.body.success)
    /\ SuccessOnlyForValidRequest

\* an unknown airport together with an unparsable dt: answered 404
C8_Witness ==
  /\ GetReturned
  /\ ~ExceptionOccurs
  /\ SomeAirportUnresolvable
  /\ DtUnparsable
  /\ ret.status = 404
  /\ ret.body = [success |-> FALSE, error |-> "Departure airport 'XXX' not found"]

-----------------------------------------------------------------------------
(* Properties of the second group *)

\* the flight just computed, computed again on a host whose local time zone
\* is tz (same coordinates, same departure instant, same duration, same
\* trigonometry)
FlightUnderTimeZone(tz) ==
  calculateFlightSunData(args.departureLat, args.departureLng, args.arrivalLat, args.arrivalLng, args.departureTime, args.flightDuration, [args.env EXCEPT !.tz = tz])

\* C11: solar results are independent of the host's local time zone: for the
\* same coordinates, departure instant and duration, calculateFlightSunData
\* returns the same scenicSide, sunriseTime and sunsetTime under any two
\* local time-zone settings.
C11_TimeZoneIndependent ==
  FlightReturned =>
    \A tz \in TimeZones :
      /\ FlightUnderTimeZone(tz).scenicSide = ret.scenicSide
      /\ FlightUnderTimeZone(tz).sunriseTime = ret.sunriseTime
      /\ FlightUnderTimeZone(tz).sunsetTime = ret.sunsetTime


SunPositionReturned == pc = "returned" /\ op = "getSunPosition"

BearingReturned == pc = "returned" /\ op = "calculateBearing"

\* C13: for every raw azimuth in [-180, 180] getSunPosition returns an azimuth
\* in [0, 360), and calculateBearing returns a bearing in [0, 360)
C13_AzimuthAndBearingRange ==
  /\ SunPositionReturned => ret.azimuth >= 0 /\ ret.azimuth < 360
  /\ BearingReturned => ret >= 0 /\ ret < 360

\* the raw azimuth is at the upper end of its range, where raw + 180 is 360
C13_Witness ==
  SunPositionReturned /\ args.azimuth = 180 /\ ret.azimuth = 0


DistanceReturned == pc = "returned" /\ op = "haversineDistance"

DurationReturned == pc = "returned" /\ op = "calculateFlightDuration"

\* the flight just computed departs and arrives at the same coordinates
CoincidentFlight ==
  /\ FlightReturned
  /\ args.departureLat = args.arrivalLat
  /\ args.departureLng = args.arrivalLng

IsPath(r) ==
  \A k \in 1..Len(r) : DOMAIN r[k] = {"from", "to", "t"}

\* C15: generateGreatCirclePath called with numPoints zero or negative
\* signals an error: it does not return a path, be it empty or with NaN
\* coordinates
C15_NonPositiveNumPointsRejected ==
  (PathReturned /\ args.numPoints <= 0) => ~IsPath(ret)


SunriseSunsetReturned == pc = "returned" /\ op = "calculateSunriseSunset"

\* the hour-angle cosine (in thousandths) is outside [-1, 1]
OutsideUnitInterval(cosH) == cosH > 1000 \/ cosH < -1000

\* C16: calculateSunriseSunset returns null for sunrise (resp. sunset)
\* exactly when the hour-angle cosine of that event is greater than 1 or less
\* than -1, and an instant otherwise; each event is decided on its own cosine
C16_NullIffCosineOutsideRange ==
  SunriseSunsetReturned =>
    /\ ret.sunrise = Null <=> OutsideUnitInterval(args.eph.rise.cosH)
    /\ ret.sunset = Null <=> OutsideUnitInterval(args.eph.set.cosH)
    /\ ret.sunrise # Null => Len(ret.sunrise) = 1 /\ ret.sunrise[1] \in Int
    /\ ret.sunset # Null => Len(ret.sunset) = 1 /\ ret.sunset[1] \in Int

\* no sunrise, but a sunset whose cosine sits on the limit of the range
C16_Witness ==
  /\ SunriseSunsetReturned
  /\ ret.sunrise = Null
  /\ ret.sunset # Null
  /\ args.eph.set.cosH = -1000


\* C17: the seats recommended for scenic side 'left' are A, B and C, and
\* those for scenic side 'right' are D, E and F
C17_SeatLettersAsDocumented ==
  /\ (SeatsReturned /\ args = "left") => ret = <<"A", "B", "C">>
  /\ (SeatsReturned /\ args = "right") => ret = <<"D", "E", "F">>


-----------------------------------------------------------------------------
(* Properties of ThemeToggle *)

\* the theme chosen by the last toggle, in any tab
LastToggled == toggled[Len(toggled)]

\* the component of tab t mounted after the last toggle
MountedSinceLastToggle(t) ==
  mounted[t] /\ toggled # <<>> /\ togglesAtMount[t] = Len(toggled)

\* C18: the theme preference is persistent: a ThemeToggle that mounts after
\* any sequence of toggles shows the theme chosen by the last toggle,
\* whatever the system colour-scheme preference is; and after every mount or
\* toggle the root element carries the class 'dark' if and only if isDark
C18_ThemePersistent ==
  \A t \in Tabs :
    /\ mounted[t] => (classList[t] <=> isDark[t])
    /\ MountedSinceLastToggle(t) => isDark[t] = LastToggled

\* a mount after a toggle restores a theme that the system preference
\* contradicts
C18_Witness ==
  \E t \in Tabs :
    /\ MountedSinceLastToggle(t)
    /\ isDark[t] = LastToggled
    /\ prefersDark # LastToggled
    /\ Len(toggled) >= 2


-----------------------------------------------------------------------------
(* Properties of the relative angle and of the classification *)

RelativeAngleReturned == pc = "returned" /\ op = "calculateSunRelativeAngle"

\* C19: calculateSunRelativeAngle(flightBearing, sunAzimuth) returns the
\* difference sunAzimuth - flightBearing normalised into (-180, 180]: the
\* result is congruent to the difference modulo 360, greater than -180 and at
\* most 180; -180 is never returned
C19_RelativeAngleHalfOpen ==
  RelativeAngleReturned =>
    /\ (ret - (args.sunAzimuth - args.flightBearing)) % 360 = 0
    /\ ret > -180
    /\ ret <= 180


\* the sun is within 5 degrees of straight ahead or of straight behind
AheadOrBehind(angle) ==
  (angle >= -5 /\ angle <= 5) \/ angle >= 175 \/ angle <= -175

\* the path of the flight just computed
FlightPath ==
  generateGreatCirclePath(args.departureLat, args.departureLng,
                          args.arrivalLat, args.arrivalLng, pathPointCount)

\* the bearing of the route of the flight just computed
RouteBearing ==
  calculateBearing(Atan2Deg(args.departureLat, args.departureLng,
                            args.arrivalLat, args.arrivalLng))

\* the bearing of the path segment that starts at path point i (0..19)
SegmentBearing(i) == calculateBearing(segmentAtan2(FlightPath, i + 1, args.env))

\* the bearing the flight just computed gave its arrival sample
ArrivalSampleBearing ==
  LET all == withArrivalSample(pathSamples(FlightPath, args.env),
                               getSunPosition(args.env.sunCalc[pathPointCount]),
                               RouteBearing)
  IN  all[Len(all)].bearing

\* the relative angle at sample i of the flight just computed: samples 0..19
\* take the bearing of their path segment, the arrival sample 20 the bearing
\* the code gives it
SampleRelativeAngle(i) ==
  LET bearing == IF i < pathPointCount THEN SegmentBearing(i)
                 ELSE ArrivalSampleBearing
  IN  calculateSunRelativeAngle(bearing, getSunPosition(args.env.sunCalc[i]).azimuth)

\* C20: if at every visible sample the relative angle is within 5 degrees of
\* straight ahead or of straight behind, the classification is 'both', never
\* 'left' or 'right'
C20_AheadOrBehindIsBoth ==
  /\ (ClassifierReturned /\ \A k \in 1..Len(args) : AheadOrBehind(args[k]))
       => ret = "both"
  /\ (FlightReturned
        /\ \A i \in 0..pathPointCount :
             SampleAltitude(i) > visibilityAltitude
               => AheadOrBehind(SampleRelativeAngle(i)))
       => ret.scenicSide \in {"both", "none"}


-----------------------------------------------------------------------------
(* Properties of the third group *)

ArrivalVisible == SampleAltitude(pathPointCount) > visibilityAltitude

\* C21: the bearing used for the arrival sample is the bearing of the last
\* path segment (path point 19 to path point 20) or the bearing of the whole
\* route, never the bearing of an earlier segment
C21_ArrivalBearingLastOrRoute ==
  (FlightReturned /\ ArrivalVisible) =>
    ArrivalSampleBearing \in {SegmentBearing(pathPointCount - 1), RouteBearing}


\* sample i of the flight just computed is discarded
Discarded(i) == ~(SampleAltitude(i) > visibilityAltitude)

\* other sun azimuths (raw) and other segment headings for discarded samples
Disturbances == [azimuth : {-90, 90}, atan2 : {0, 180}]

\* the trigonometry of the flight just computed, with the azimuth and the
\* segment heading of every discarded sample replaced by those of d; the
\* altitudes and the retained samples are as they were
Disturbed(d) ==
  [args.env EXCEPT
     !.sunCalc = [i \in 0..pathPointCount |->
                    IF Discarded(i)
                    THEN [azimuth |-> d.azimuth, altitude |-> SampleAltitude(i)]
                    ELSE args.env.sunCalc[i]],
     !.atan2 = [i \in 0..(pathPointCount - 1) |->
                  IF Discarded(i) THEN d.atan2 ELSE args.env.atan2[i]]]

\* the flight just computed, computed again with the trigonometry env
FlightUnderEnv(env) ==
  calculateFlightSunData(args.departureLat, args.departureLng, args.arrivalLat, args.arrivalLng, args.departureTime, args.flightDuration, env)

\* C22: a sample whose solar altitude is <= -6 degrees, exactly -6 included,
\* has no influence on the classification: with another sun azimuth and
\* another segment bearing at every such sample, the retained samples being
\* the same, calculateFlightSunData returns the same scenicSide
C22_DiscardedSamplesHaveNoInfluence ==
  FlightReturned =>
    \A d \in Disturbances : FlightUnderEnv(Disturbed(d)).scenicSide = ret.scenicSide

\* some samples are retained and put the sun on one side, a sample at exactly
\* -6 degrees is discarded, and the disturbance would put it on the other side
C22_Witness ==
  /\ FlightReturned
  /\ ret.scenicSide = "right"
  /\ \E i \in 0..(pathPointCount - 1) :
       /\ SampleAltitude(i) = visibilityAltitude
       /\ \E d \in Disturbances :
            calculateSunRelativeAngle(
              calculateBearing(d.atan2),
              getSunPosition([azimuth |-> d.azimuth,
                              altitude |-> SampleAltitude(i)]).azimuth) < -threshold


\* the instant on the host's calendar day of the date handed to the call just
\* made, at the time of day UT = T - lon / 15 of event e taken modulo 24 hours
\* and cut to whole seconds
OnInputDay(e) ==
  LET f == LocalFields(args.date, args.tz)
      UT == (e.T - args.lon * 24) % MsPerDay
  IN  DateUTC(f.year, f.month, f.date, 0, 0, 0) + (UT \div MsPerSecond) * MsPerSecond

\* the instant r, if any, is the one OnInputDay gives for event e
OnInputDayIfAny(r, e) ==
  r # Null =>
    /\ r[1] = OnInputDay(e)
    /\ LocalFields(r[1], 0) = LocalFields(args.date, args.tz)
    /\ r[1] % MsPerSecond = 0

\* C23: every instant calculateSunriseSunset returns has, as its UTC year,
\* month and day, the calendar year, month and day of the input date (the
\* fields the host reads from it), and as its UTC time of day the computed UT
\* normalised into [0, 24) hours and cut to whole seconds; it never rolls
\* over to an adjacent day
C23_InstantOnInputDay ==
  SunriseSunsetReturned =>
    /\ OnInputDayIfAny(ret.sunrise, args.eph.rise)
    /\ OnInputDayIfAny(ret.sunset, args.eph.set)

\* a sunrise whose UT + 24 is negative before the normalisation, a sunset
\* whose UT + 24 exceeds 24 hours, on a host away from UTC
C23_Witness ==
  /\ SunriseSunsetReturned
  /\ ret.sunrise # Null
  /\ ret.sunset # Null
  /\ args.eph.rise.T - args.lon * 24 + MsPerDay < 0
  /\ args.eph.set.T - args.lon * 24 > MsPerDay
  /\ args.tz # 0


DayOfYearReturned == pc = "returned" /\ op = "dayOfYear"

\* the ordinal, within its year, of the host's calendar day of the instant
\* handed to dayOfYear
OrdinalOfLocalDay ==
  LET day == LocalDay(args.zone, args.d)
  IN  day - YearStart(day) + 1

\* C24: the day-of-year is the ordinal of the instant's calendar day within
\* its year (1 on January 1), whatever the time of day and whatever
\* daylight-saving shift lies between the start of the year and the instant
C24_DayOfYearIsOrdinal ==
  DayOfYearReturned => ret = OrdinalOfLocalDay /\ ret \in 1..366


\* in local mean time the sunrise of the call just made comes before its
\* sunset, as it does for every real location and date
RiseBeforeSetLocally ==
  args.eph.rise.T % MsPerDay < args.eph.set.T % MsPerDay

\* C25: whenever calculateSunriseSunset returns both a sunrise and a sunset,
\* the sunrise instant is strictly earlier than the sunset instant, at every
\* longitude
C25_SunriseBeforeSunset ==
  (SunriseSunsetReturned /\ RiseBeforeSetLocally
     /\ ret.sunrise # Null /\ ret.sunset # Null)
    => ret.sunrise[1] < ret.sunset[1]


\* C26: for every FlightSunData that calculateFlightSunData produces, if
\* isSunVisibleDuringFlight holds of it (departure or arrival sun altitude
\* > 0) then its scenicSide is not 'none'
C26_VisibleSunHasScenicSide ==
  (FlightReturned /\ isSunVisibleDuringFlight(ret)) => ret.scenicSide # "none"

\* the sun is up at the arrival only: every path sample is discarded
C26_Witness ==
  /\ FlightReturned
  /\ isSunVisibleDuringFlight(ret)
  /\ \A i \in 0..(pathPointCount - 1) : Discarded(i)
  /\ ret.departureSun.altitude <= 0
  /\ ret.scenicSide \in {"left", "right", "both"}


-----------------------------------------------------------------------------
(* Properties of the order of the checks of GET /api/flight *)

\* the response just given is the error response with this status and message
\* and carries no data: nothing was computed for it
Refused(status, message) ==
  /\ ret.status = status
  /\ ret.body = [success |-> FALSE, error |-> message]

\* C27: GET /api/flight applies its checks in a fixed order and the first
\* failing check alone determines the response: missing from/to/dt (400),
\* unknown departure airport (404), unknown arrival airport (404), departure
\* and arrival resolving to the same airport whatever the case of the codes
\* (400), unparsable dt (400); a request failing a check gets no data
C27_ChecksInFixedOrder ==
  (GetReturned /\ args.request.fault # "url") =>
    IF SomeParamMissing
    THEN Refused(400, "Missing required parameters: from, to, dt")
    ELSE IF Unresolvable(args.request.from)
    THEN Refused(404, "Departure airport '" \o args.request.from[1] \o "' not found")
    ELSE IF Unresolvable(args.request.to)
    THEN Refused(404, "Arrival airport '" \o args.request.to[1] \o "' not found")
    ELSE IF SameAirport
    THEN Refused(400, "Departure and arrival airports cannot be the same")
    ELSE IF DtUnparsable
    THEN Refused(400, "Invalid departure time format")
    ELSE args.request.fault = "none" => (ret.body.success /\ "data" \in DOMAIN ret.body)

\* the same airport under two spellings together with an unparsable dt: the
\* airports are compared first
C27_Witness ==
  /\ GetReturned
  /\ args.request.from = Some("Jfk")
  /\ args.request.to = Some("jfk")
  /\ DtUnparsable
  /\ Refused(400, "Departure and arrival airports cannot be the same")


-----------------------------------------------------------------------------
(* Properties of FlightInputForm *)

\* both airports are selected and differ, the date and the time are set
FormComplete ==
  /\ formData.from # "" /\ formData.to # ""
  /\ formData.from # formData.to
  /\ formData.date # "" /\ formData.time # ""

\* the date and the time of the form spell an instant after the present one
DepartureInFuture ==
  LET departureDateTime == newDateLocal(formData.date, formData.time, clock.tz)
  IN  departureDateTime # Null /\ departureDateTime[1] > clock.now

\* C28: handleSubmit navigates only when both airports are selected, they
\* differ, date and time are set and the departure date-time is strictly in
\* the future; every rejected submission sets a non-empty error message,
\* leaves isSubmitting false and does not navigate, so that the form can be
\* submitted again
C28_SubmitNavigatesOnlyWhenValid ==
  [][submissions' # submissions =>
       /\ pushed' # Null => (FormComplete /\ DepartureInFuture)
       /\ pushed' = Null => (formError' # "" /\ ~isSubmitting')]_vars

\* a submission for a departure at exactly the present instant was rejected
C28_Witness ==
  /\ submissions > 0
  /\ FormComplete
  /\ newDateLocal(formData.date, formData.time, clock.tz) = Some(clock.now)
  /\ formError = "Departure time must be in the future"
  /\ ~isSubmitting
  /\ pushed = Null


-----------------------------------------------------------------------------
(* Properties of VisualizeClient *)

\* every fetch that was started has settled
AllSettled == fetches > 0 /\ pending = {}

\* C29: once all started fetches have settled, the component shows the
\* outcome of the fetch for the latest searchParams (the last one started):
\* loading is false, and if that fetch succeeded flightData is its data and
\* error is null, otherwise error is set
C29_ShowsLatestFetch ==
  AllSettled =>
    /\ ~loading
    /\ IF outcomes[fetches] = "success"
       THEN flightData = Some([query |-> searchParams]) /\ error = Null
       ELSE error # Null


-----------------------------------------------------------------------------
(* Properties of fetchSunriseSunset *)

FetchReturned == pc = "returned" /\ op = "fetchSunriseSunset"

\* the request of the call just made went through and was answered
\* successfully: nothing threw, the response is ok, the body is an object
\* with status 'OK' and with results
AnsweredOK ==
  /\ args.date # Null
  /\ args.net.fetch = "responds"
  /\ args.net.ok
  /\ args.net.body.kind = "object"
  /\ args.net.body.status = "OK"
  /\ args.net.body.results # Null

\* C30: fetchSunriseSunset never rejects: it resolves to null when the
\* response is not ok, when the body's status is not 'OK' or has no results,
\* or when the request or the JSON parsing throws, and resolves to a
\* {sunrise, sunset} pair only when the response is ok and its status 'OK'
C30_FetchNeverRejects ==
  FetchReturned =>
    /\ ret.state = "resolved"
    /\ ~AnsweredOK => ret.value = Null
    /\ AnsweredOK =>
         /\ ret.value # Null
         /\ DOMAIN ret.value[1] = {"sunrise", "sunset"}

\* response.json() threw on an ok response, and the promise resolved to null
C30_Witness ==
  /\ FetchReturned
  /\ args.date # Null
  /\ args.net.fetch = "responds"
  /\ args.net.ok
  /\ args.net.body.kind = "unparsable"
  /\ ret = Resolved(Null)

====
